---- MODULE Spec2Model ----
(***************************************************************************)
(* Tensor-parallel engine of oslo (1D): TensorParallelEngine1D.parallelize *)
(* and TensorDeparallelEngine1D.deparallelize run by W ranks on identical  *)
(* copies of a model, and VocabParallelEmbedding.forward on the shards.    *)
(* Each rank logs the collective calls it issues.  allocate and           *)
(* deallocate run on a single parameter.                                   *)
(*                                                                         *)
(* A tensor is a record [nd, v]: nd = 1 and v a sequence of numbers, or    *)
(* nd = 2 and v a sequence of rows.  ERR (nd = 0) stands for the exception *)
(* a torch call raises.                                                    *)
(***************************************************************************)
EXTENDS Integers, Sequences, FiniteSets, TLC

\* ------------------------------------------------------------------ bounds
MaxDim == 12     \* largest size of a weight's sliced dimension
MaxOther == 2    \* largest size of a weight's other dimension
MaxFusion == 3   \* largest fusion degree of the mapping
MaxVocab == 7    \* largest vocabulary
MaxAttr == 4     \* largest value of a rescaled config attribute
MaxBlock == 2    \* largest block length given to _reconstruct_combined_qkv
MaxFnWorld == 4  \* largest world size given to _reconstruct_combined_qkv
EmbDim == 2      \* embedding width of the modelled table
MaxRank == 3     \* largest tp_rank, pp_rank or dp_rank recorded on a parameter

WorldSizes == {1, 2, 4}

\* ------------------------------------------------------------ torch tensors
ERR == [nd |-> 0, v |-> <<>>]
T1(v) == [nd |-> 1, v |-> v]
T2(v) == [nd |-> 2, v |-> v]

Min(a, b) == IF a < b THEN a ELSE b

CeilDiv(a, b) == (a + b - 1) \div b

\* tensor.size()[dim]
Size(t, dim) ==
  IF t.nd = 1 \/ dim = 0 THEN Len(t.v)
  ELSE IF Len(t.v) = 0 THEN 0 ELSE Len(t.v[1])

\* t[lo:hi] along dim (0-based, hi exclusive)
SliceDim(t, dim, lo, hi) ==
  IF t.nd = 1 \/ dim = 0
  THEN [nd |-> t.nd, v |-> SubSeq(t.v, lo + 1, hi)]
  ELSE [nd |-> 2, v |-> [i \in 1..Len(t.v) |-> SubSeq(t.v[i], lo + 1, hi)]]

\* torch.chunk(t, n, dim): chunks of ceil(size / n), the last one shorter, and
\* fewer than n chunks when the size does not fill them.
Chunk(t, n, dim) ==
  LET s == Size(t, dim)
      cs == CeilDiv(s, n)
      k == IF s = 0 THEN 0 ELSE CeilDiv(s, cs)
  IN [i \in 1..k |-> SliceDim(t, dim, (i - 1) * cs, Min(i * cs, s))]

RECURSIVE Cat0(_)
Cat0(ts) == IF Len(ts) = 0 THEN <<>> ELSE Head(ts).v \o Cat0(Tail(ts))

RECURSIVE Cat1(_, _)
Cat1(ts, i) == IF Len(ts) = 0 THEN <<>> ELSE Head(ts).v[i] \o Cat1(Tail(ts), i)

\* torch.cat(ts, dim): raises on an empty list and on tensors whose other
\* dimension differs; dim = -1 is the last dimension.
Cat(ts, dim) ==
  IF Len(ts) = 0 \/ \E i \in 1..Len(ts) : ts[i].nd # ts[1].nd \/ ts[i].nd = 0
  THEN ERR
  ELSE LET nd == ts[1].nd
           d == IF dim = -1 THEN nd - 1 ELSE dim
       IN IF nd = 1 THEN T1(Cat0(ts))
          ELSE IF d = 0
          THEN IF \E i \in 1..Len(ts) : Size(ts[i], 1) # Size(ts[1], 1)
               THEN ERR ELSE T2(Cat0(ts))
          ELSE IF \E i \in 1..Len(ts) : Size(ts[i], 0) # Size(ts[1], 0)
               THEN ERR
               ELSE T2([i \in 1..Size(ts[1], 0) |-> Cat1(ts, i)])

\* ------------------------------------------------------ fused projections
\* TensorParallelEngine1D._deconstruct_combined_qkv: groups of world_size
\* chunks, zip(*groups) (as long as the shortest group), torch.cat(dim=-1).
DeconstructCombinedQkv(tensor, world_size) ==
  LET n == Len(tensor)
      ranks == (n + world_size - 1) \div world_size
      zipped == IF n = 0 THEN 0
                ELSE IF n % world_size = 0 THEN world_size ELSE n % world_size
  IN [j \in 1..zipped |->
        Cat([i \in 1..ranks |-> tensor[(i - 1) * world_size + j]], -1)]

\* result_tensors[i] after the loop over the gathered tensors
SlotChunks(tensors, fusion_degree, dim, i) ==
  LET chunks == [k \in 1..Len(tensors) |-> Chunk(tensors[k], fusion_degree, dim)]
      HasSlot(c) == Len(c) >= i
      kept == SelectSeq(chunks, HasSlot)
  IN [k \in 1..Len(kept) |-> kept[k][i]]

ReconstructRankMajor(tensors, fusion_degree, dim) == Cat(tensors, dim)

\* TensorDeparallelEngine1D._reconstruct_combined_qkv
ReconstructCombinedQkv(tensors, fusion_degree, dim) ==
  LET slots == [i \in 1..fusion_degree |->
                  Cat(SlotChunks(tensors, fusion_degree, dim, i), dim)]
  IN Cat(slots, dim)

\* ------------------------------------------------------------------- state
VARIABLES
  inp,    \* the model and the mapping every rank starts from, the batch, and
          \* whether the program the ranks run has a forward pass
  rk,     \* rk[r]: rank r's copy of the model (modules, tensors, attributes)
          \* and the collective calls the rank has issued so far
  pc,     \* pc[r]: where rank r is: "start", "sharded", "pfailed" (parallelize
          \* raised), "entered" (inside deparallelize, waiting in a collective),
          \* "done", "dfailed" (deparallelize raised), "hung", "ffailed"
          \* (forward raised)
  sent,   \* sent[r]: the shards rank r contributed to deparallelize's gathers
  fwd,    \* fwd[r]: VocabParallelEmbedding.forward on rank r, up to mpu.reduce
  red,    \* the result of mpu.reduce over the ranks' forward outputs
  fn,     \* a direct call of _reconstruct_combined_qkv: arguments and result
  al      \* a parameter given to allocate and deallocate: its recorded ranks,
          \* the arguments rank2device was last asked with, where its data is

vars == <<inp, rk, pc, sent, fwd, red, fn, al>>

Ranks == 0..(inp.W - 1)

PNames == {"emb.weight", "lin.weight", "lin.bias", "ln.weight", "ln.buf"}

NoTensor == [nd |-> 0, v |-> <<>>]

\* identifiable contents: every element of a tensor is a different number
Iota2(rows, cols, base) ==
  T2([i \in 1..rows |-> [j \in 1..cols |-> base + (i - 1) * cols + j]])

Iota1(n, base) == T1([i \in 1..n |-> base + i])

\* the output features of the linear module: weight is [out, in], or [in, out]
\* when the mapping marks the module reversed (Conv1D)
OutFeatures(i) == IF i.reversed THEN i.wCols ELSE i.wRows
InFeatures(i) == IF i.reversed THEN i.wRows ELSE i.wCols

OrigWeight(i) == Iota2(i.wRows, i.wCols, 0)
OrigBias(i) == IF i.hasBias THEN Iota1(OutFeatures(i), 500) ELSE NoTensor
OrigTable(i) == Iota2(i.V, EmbDim, 1000)

\* The model as constructed, before any engine touches it.  Attributes the
\* engine attaches later are absent: "none", 0 or -1.
InitRank(i) ==
  [ attr      |-> IF i.hasAttr THEN i.h ELSE 0,
    embW      |-> OrigTable(i),
    embCls    |-> "Embedding",
    embMpu    |-> FALSE,
    embOrig   |-> "none",
    numEmb    |-> i.V,
    linW      |-> OrigWeight(i),
    linB      |-> OrigBias(i),
    linCls    |-> IF i.reversed THEN "Conv1D" ELSE "Linear",
    linMpu    |-> FALSE,
    linRev    |-> "none",
    linFus    |-> 0,
    linOrig   |-> "none",
    linGather |-> "none",
    inF       |-> InFeatures(i),
    outF      |-> OutFeatures(i),
    nx        |-> 0,
    nf        |-> 0,
    modelMpu  |-> FALSE,
    tp        |-> [p \in PNames |-> -1],
    cuda      |-> [p \in PNames |-> p \in i.cuda],
    calls     |-> <<>>,
    err       |-> "" ]

\* the rank issues a collective: mpu.reduce, mpu._gather or dist.all_gather
Called(s, name) == [s EXCEPT !.calls = Append(@, name)]

\* the parameters and the buffers of the model (lin.bias may be None)
Parameters(s) ==
  {"emb.weight", "lin.weight", "ln.weight"}
    \cup (IF s.linB.nd # 0 THEN {"lin.bias"} ELSE {})

Buffers(s) == {"ln.buf"}

\* --------------------------------------------------------------- parallelize
\* TensorParallelEngine1D._update_mp_arguments
UpdateMpArguments(s, hasAttr, world_size) ==
  IF hasAttr THEN [s EXCEPT !.attr = @ \div world_size] ELSE s

\* TensorParallelEngine1D._parallelize_embedding (the model ties no other
\* module to the embedding weight)
ParallelizeEmbedding(s, hasAccessor, world_size, gpu_index) ==
  IF ~hasAccessor THEN [s EXCEPT !.err = "raise"]
  ELSE LET chunked_weights == Chunk(s.embW, world_size, 0)
       IN IF gpu_index + 1 > Len(chunked_weights)
          THEN [s EXCEPT !.err = "raise"]
          ELSE [s EXCEPT !.embW = chunked_weights[gpu_index + 1],
                         !.tp["emb.weight"] = gpu_index,
                         !.embMpu = TRUE,
                         !.embOrig = s.embCls,
                         !.embCls = "VocabParallelEmbedding"]

BoolStr(b) == IF b THEN "true" ELSE "false"

\* the list _slice indexes with gpu_index: the chunks, regrouped when fused
Shards(t, fusion_degree, world_size, dim) ==
  LET chunks == Chunk(t, fusion_degree * world_size, dim)
  IN IF fusion_degree > 1
     THEN DeconstructCombinedQkv(chunks, world_size)
     ELSE chunks

Raises(list, gpu_index) ==
  \/ \E k \in 1..Len(list) : list[k] = ERR
  \/ gpu_index + 1 > Len(list)

\* _slice, the attributes update_module_arguments attaches first
SliceAttrs(s, reversed, fusion_degree) ==
  [s EXCEPT !.linMpu = TRUE,
            !.linRev = BoolStr(reversed),
            !.linFus = fusion_degree,
            !.linOrig = s.linCls,
            !.linGather = "false"]

\* _slice: module.weight.data = weight[gpu_index], tp_rank, in/out_features
StoreWeight(s, weight, gpu_index) ==
  IF Raises(weight, gpu_index)
  THEN [s EXCEPT !.err = "raise"]
  ELSE [s EXCEPT !.linW = weight[gpu_index + 1],
                 !.tp["lin.weight"] = gpu_index,
                 !.inF = Size(weight[gpu_index + 1], 0),
                 !.outF = Size(weight[gpu_index + 1], 1)]

\* _slice: module.bias.data = bias[gpu_index], tp_rank
StoreBias(s, bias, gpu_index) ==
  IF Raises(bias, gpu_index)
  THEN [s EXCEPT !.err = "raise"]
  ELSE [s EXCEPT !.linB = bias[gpu_index + 1],
                 !.tp["lin.bias"] = gpu_index]

\* _slice, the weight branch
SliceWeight(s, fusion_degree, world_size, dim, gpu_index) ==
  StoreWeight(s, Shards(s.linW, fusion_degree, world_size, dim), gpu_index)

\* _slice, the bias branch (not reached when the weight branch raised)
SliceBias(s, fusion_degree, world_size, slice_bias, gpu_index) ==
  IF s.err # "" \/ s.linB.nd = 0 THEN s
  ELSE IF ~slice_bias THEN [s EXCEPT !.tp["lin.bias"] = gpu_index]
  ELSE StoreBias(s, Shards(s.linB, fusion_degree, world_size, 0), gpu_index)

\* TensorParallelEngine1D._slice
Slice(s, reversed, fusion_degree, slice_bias, dim0, world_size, gpu_index) ==
  SliceBias(
    SliceWeight(SliceAttrs(s, reversed, fusion_degree), fusion_degree,
                world_size, IF ~reversed THEN dim0 ELSE 1 - dim0, gpu_index),
    fusion_degree, world_size, slice_bias, gpu_index)

\* TensorParallelEngine1D._column_slice
ColumnSlice(s, fusion_degree, reversed, world_size, gpu_index) ==
  Slice(s, reversed, fusion_degree, TRUE, 0, world_size, gpu_index)

\* TensorParallelEngine1D._row_slice
RowSlice(s, fusion_degree, reversed, world_size, gpu_index) ==
  Slice(s, reversed, fusion_degree, FALSE, 1, world_size, gpu_index)

\* module.__class__ = ..., once the slicing returned
SetClass(s, cls) == IF s.err # "" THEN s ELSE [s EXCEPT !.linCls = cls]

\* TensorParallelEngine1D._parallelize_modules (not reached when
\* _parallelize_embedding raised)
ParallelizeModules(s, i, world_size, gpu_index) ==
  IF s.err # "" THEN s
  ELSE IF i.kind = "column"
  THEN SetClass(ColumnSlice(s, i.fusion, i.reversed, world_size, gpu_index),
                "ColumnParallelLinear")
  ELSE SetClass(RowSlice(s, 1, i.reversed, world_size, gpu_index),
                "RowParallelLinear")

\* TensorParallelEngine1D._postprocess (not reached when a step before raised)
Postprocess(s, gpu_index) ==
  IF s.err # "" THEN s
  ELSE [s EXCEPT !.tp = [p \in PNames |->
          IF p \in Parameters(s) \cup Buffers(s) /\ ~s.cuda[p]
          THEN gpu_index ELSE s.tp[p]]]

\* parallelize's last line: update_module_arguments(self.model, mpu=self.mpu)
SetModelMpu(s, mpu) == IF s.err # "" THEN s ELSE [s EXCEPT !.modelMpu = mpu]

\* TensorParallelEngine1D.parallelize
ParallelizeModel(s, i, gpu_index) ==
  SetModelMpu(
    Postprocess(
      ParallelizeModules(
        ParallelizeEmbedding(UpdateMpArguments(s, i.hasAttr, i.W),
                             i.hasAccessor, i.W, gpu_index),
        i, i.W, gpu_index),
      gpu_index),
    TRUE)

\* the rank's model and position once a handler returned or raised
Returned(r, s, ok) ==
  /\ rk' = [rk EXCEPT ![r] = [s EXCEPT !.err = ""]]
  /\ pc' = [pc EXCEPT ![r] = IF s.err = "" THEN ok
                             ELSE IF s.err = "hang" THEN "hung"
                             ELSE IF ok = "sharded" THEN "pfailed" ELSE "dfailed"]

Parallelize(r) ==
  /\ pc[r] = "start"
  /\ Returned(r, ParallelizeModel(rk[r], inp, r), "sharded")
  /\ UNCHANGED <<inp, sent, fwd, red, fn, al>>

\* ------------------------------------------------------------------ forward
RECURSIVE SumSeq(_)
SumSeq(q) == IF Len(q) = 0 THEN 0 ELSE Head(q) + SumSeq(Tail(q))

\* VocabParallelEmbedding._get_partitioned_vocab_range: the list `indices`
\* after the cumulative summation (rank r's range is indices[r], indices[r+1],
\* here 1-based: the entries r + 1 and r + 2)
VocabIndices(num_embeddings, world_size) ==
  LET ceil == CeilDiv(num_embeddings, world_size)
      sizes == [k \in 1..world_size |->
                  IF k = world_size
                  THEN num_embeddings - SumSeq([m \in 1..(world_size - 1) |-> ceil])
                  ELSE ceil]
      withZero == <<0>> \o sizes
  IN [k \in 1..(world_size + 1) |-> SumSeq(SubSeq(withZero, 1, k))]

ZeroRow(w) == [j \in 1..Size(w, 1) |-> 0]

\* F.embedding(idx, weight) for one id: the row, or <<>> when the id is out of
\* the table (the lookup raises)
Lookup(w, idx) == IF idx >= 0 /\ idx < Size(w, 0) THEN w.v[idx + 1] ELSE <<>>

KeepMasked(w, masked_id, masked, world_size) == Lookup(w, masked_id)

\* one row of output_parallel: the lookup, zeroed where input_mask is set
OutputRow(w, masked_id, masked, world_size) ==
  IF world_size > 1 /\ masked /\ Lookup(w, masked_id) # <<>>
  THEN ZeroRow(w)
  ELSE Lookup(w, masked_id)

\* VocabParallelEmbedding.forward up to the call of mpu.reduce
ForwardLocal(s, inputs, world_size, rank) ==
  LET indices == IF world_size > 1
                 THEN VocabIndices(s.numEmb, world_size) ELSE <<>>
      vocab_start_index == IF world_size > 1 THEN indices[rank + 1] ELSE 0
      vocab_end_index == IF world_size > 1 THEN indices[rank + 2] ELSE 0
      input_mask == [k \in 1..Len(inputs) |->
                       world_size > 1 /\ (\/ inputs[k] < vocab_start_index
                                          \/ inputs[k] >= vocab_end_index)]
      masked_input == [k \in 1..Len(inputs) |->
                         IF world_size > 1
                         THEN IF input_mask[k] THEN 0
                              ELSE inputs[k] - vocab_start_index
                         ELSE inputs[k]]
      rows == [k \in 1..Len(inputs) |->
                 OutputRow(s.embW, masked_input[k], input_mask[k], world_size)]
  IN [ done |-> TRUE,
       indices |-> indices,
       mask |-> input_mask,
       masked |-> masked_input,
       out |-> IF \E k \in 1..Len(inputs) : rows[k] = <<>> THEN ERR ELSE T2(rows) ]

NoForward == [done |-> FALSE, indices |-> <<>>, mask |-> <<>>, masked |-> <<>>,
              out |-> NoTensor]

\* forward's last step: out = self.mpu.reduce(output_parallel), not reached
\* when F.embedding raised
CallReduce(s, f) == IF f.out = ERR THEN s ELSE Called(s, "reduce")

Forward(r) ==
  /\ inp.runForward
  /\ pc[r] = "sharded"
  /\ ~fwd[r].done
  /\ LET f == ForwardLocal(rk[r], inp.batch, inp.W, r)
     IN /\ fwd' = [fwd EXCEPT ![r] = f]
        /\ pc' = [pc EXCEPT ![r] = IF f.out = ERR THEN "ffailed" ELSE @]
        /\ rk' = [rk EXCEPT ![r] = CallReduce(@, f)]
  /\ UNCHANGED <<inp, sent, red, fn, al>>

\* mpu.reduce: the element-wise sum of the ranks' tensors
MpuReduce(outs, world_size) ==
  T2([k \in 1..Size(outs[0], 0) |->
        [j \in 1..Size(outs[0], 1) |->
            SumSeq([q \in 1..world_size |-> outs[q - 1].v[k][j]])]])

\* every rank has reached mpu.reduce in forward: the collective completes
Reduce ==
  /\ red = NoTensor
  /\ \A r \in Ranks : fwd[r].done /\ fwd[r].out # ERR
  /\ red' = MpuReduce([r \in Ranks |-> fwd[r].out], inp.W)
  /\ UNCHANGED <<inp, rk, pc, sent, fwd, fn, al>>

\* ------------------------------------------------------------- deparallelize
\* TensorDeparallelEngine1D._update_mp_arguments
DeparUpdateMpArguments(s, hasAttr, world_size) ==
  IF hasAttr THEN [s EXCEPT !.attr = @ * world_size] ELSE s

ShapeOf(t) == <<t.nd, Size(t, 0), Size(t, 1)>>

Fill(t, x) ==
  IF t.nd = 1 THEN T1([k \in 1..Len(t.v) |-> x])
  ELSE T2([k \in 1..Len(t.v) |-> [j \in 1..Len(t.v[k]) |-> x]])

UBOutcomes == {"raise", "hang", "garbage"}

\* dist.all_gather into world_size buffers shaped like the local tensor: the
\* ranks' tensors in rank order.  With shards of different shapes the call is
\* undefined: it raises, hangs, or returns (the buffers then hold unspecified
\* values, -1 here).
AllGather(tensors, own, o) ==
  IF \A q \in 1..Len(tensors) : ShapeOf(tensors[q]) = ShapeOf(own)
  THEN [st |-> "", list |-> tensors]
  ELSE IF o = "garbage"
       THEN [st |-> "", list |-> [q \in 1..Len(tensors) |-> Fill(own, -1)]]
       ELSE [st |-> o, list |-> <<>>]

\* mpu._gather(tensor, dim): all-gather, then concatenate along dim
MpuGather(tensors, own, dim, o) ==
  LET g == AllGather(tensors, own, o)
  IN [st |-> g.st, t |-> IF g.st = "" THEN Cat(g.list, dim) ELSE NoTensor]

\* _deparallelize_embedding once mpu._gather returned
StoreGathered(s, g) ==
  IF g.st # "" THEN [s EXCEPT !.err = g.st]
  ELSE [s EXCEPT !.embW = g.t,
                 !.embMpu = FALSE,
                 !.numEmb = Size(g.t, 0),
                 !.embCls = IF s.embOrig # "none" THEN s.embOrig ELSE @]

OnCuda(s, p) == [s EXCEPT !.cuda[p] = TRUE]

\* TensorDeparallelEngine1D._deparallelize_embedding
DeparallelizeEmbedding(s, embs, o) ==
  StoreGathered(OnCuda(s, "emb.weight"), MpuGather(embs, s.embW, 0, o))

\* the tensor _merge stores: the gathered shards, regrouped when fused
Merged(list, fusion_degree, dim) ==
  IF fusion_degree > 1
  THEN ReconstructCombinedQkv(list, fusion_degree, dim)
  ELSE Cat(list, dim)

\* _merge: module.weight.data = output and the recomputed feature counts
StoreMergedWeight(s, st, output) ==
  IF st # "" THEN [s EXCEPT !.err = st]
  ELSE IF output = ERR THEN [s EXCEPT !.err = "raise"]
  ELSE [s EXCEPT !.linW = output,
                 !.inF = Size(output, 0), !.outF = Size(output, 1),
                 !.nx = Size(output, 0), !.nf = Size(output, 1)]

\* _merge: module.bias.data = output
StoreMergedBias(s, st, output) ==
  IF st # "" THEN [s EXCEPT !.err = st]
  ELSE IF output = ERR THEN [s EXCEPT !.err = "raise"]
  ELSE [s EXCEPT !.linB = output]

\* all_gather, then _reconstruct_combined_qkv or torch.cat
GatherMerged(g, fusion_degree, dim) ==
  IF g.st # "" THEN NoTensor ELSE Merged(g.list, fusion_degree, dim)

\* _merge, the weight branch
MergeWeight(s, fusion_degree, dim, ws, o) ==
  StoreMergedWeight(Called(OnCuda(s, "lin.weight"), "all_gather"),
                    AllGather(ws, s.linW, o).st,
                    GatherMerged(AllGather(ws, s.linW, o), fusion_degree, dim))

\* _merge, the bias branch (not reached when the weight branch raised)
MergeBias(s, fusion_degree, merge_bias, bs, o) ==
  IF s.err # "" \/ s.linB.nd = 0 \/ ~merge_bias THEN s
  ELSE StoreMergedBias(Called(OnCuda(s, "lin.bias"), "all_gather"),
                       AllGather(bs, s.linB, o).st,
                       GatherMerged(AllGather(bs, s.linB, o), fusion_degree, 0))

\* TensorDeparallelEngine1D._merge
Merge(s, reversed, fusion_degree, merge_bias, dim0, ws, bs, o) ==
  MergeBias(
    MergeWeight([s EXCEPT !.linMpu = FALSE], fusion_degree,
                IF ~reversed THEN dim0 ELSE 1 - dim0, ws, o),
    fusion_degree, merge_bias, bs, o)

\* module.__class__ = module.orig_module, once the merge returned
RestoreClass(s) ==
  IF s.err = "" /\ s.linOrig # "none" THEN [s EXCEPT !.linCls = s.linOrig] ELSE s

\* TensorDeparallelEngine1D._column_merge
ColumnMerge(s, fusion_degree, reversed, ws, bs, o) ==
  RestoreClass(Merge(s, reversed, fusion_degree, TRUE, 0, ws, bs, o))

\* TensorDeparallelEngine1D._row_merge
RowMerge(s, fusion_degree, reversed, ws, bs, o) ==
  RestoreClass(Merge(s, reversed, fusion_degree, FALSE, 1, ws, bs, o))

\* TensorDeparallelEngine1D._deparallelize_modules (not reached when
\* _deparallelize_embedding raised)
DeparallelizeModules(s, i, ws, bs, o) ==
  IF s.err # "" THEN s
  ELSE IF i.kind = "column"
  THEN ColumnMerge(s, s.linFus, s.linRev = "true", ws, bs, o)
  ELSE RowMerge(s, s.linFus, s.linRev = "true", ws, bs, o)

\* the ranks' contributions to a gather, in rank order
Posted(posted, world_size, field) ==
  [q \in 1..world_size |-> posted[q - 1][field]]

\* TensorDeparallelEngine1D.deparallelize after _update_mp_arguments
DeparallelizeRest(s, i, posted, o) ==
  SetModelMpu(
    DeparallelizeModules(
      DeparallelizeEmbedding(s, Posted(posted, i.W, "emb"), o),
      i, Posted(posted, i.W, "w"), Posted(posted, i.W, "b"), o),
    FALSE)

NoSent == [posted |-> FALSE, emb |-> NoTensor, w |-> NoTensor, b |-> NoTensor]

\* Rank r calls deparallelize (after the forward pass, when the program runs
\* one): the config is scaled back, the rank issues the embedding's gather and
\* its shards go into the gathers, which complete once every rank has
\* contributed.
DeparallelizeEnter(r) ==
  /\ pc[r] = "sharded"
  /\ inp.runForward => red # NoTensor
  /\ rk' = [rk EXCEPT ![r] =
              Called(DeparUpdateMpArguments(@, inp.hasAttr, inp.W), "gather")]
  /\ sent' = [sent EXCEPT ![r] = [posted |-> TRUE, emb |-> rk[r].embW,
                                  w |-> rk[r].linW, b |-> rk[r].linB]]
  /\ pc' = [pc EXCEPT ![r] = "entered"]
  /\ UNCHANGED <<inp, fwd, red, fn, al>>

DeparallelizeFinish(r) ==
  /\ pc[r] = "entered"
  /\ \A q \in Ranks : sent[q].posted
  /\ \E o \in UBOutcomes :
       Returned(r, DeparallelizeRest(rk[r], inp, sent, o), "done")
  /\ UNCHANGED <<inp, sent, fwd, red, fn, al>>

\* ------------------------------------------------- direct call of the regrouping
FnIdle == [called |-> FALSE, F |-> 1, W |-> 1, dim |-> 0, tensors |-> <<>>,
           orig |-> NoTensor, result |-> NoTensor]

\* block k (0-based) of the F * W equal blocks of t along dim
Block(t, dim, b, k) == SliceDim(t, dim, k * b, (k + 1) * b)

\* the arguments of a call: rank r's tensor is the blocks r, r + W, ... of
\* orig, concatenated along dim
FnInput(F, W, dim, orig, b) ==
  [called |-> FALSE, F |-> F, W |-> W, dim |-> dim,
   tensors |-> [q \in 1..W |->
                  Cat([j \in 1..F |-> Block(orig, dim, b, (q - 1) + (j - 1) * W)], dim)],
   orig |-> orig, result |-> NoTensor]

ReconstructCall ==
  /\ ~fn.called
  /\ fn.tensors # <<>>
  /\ fn' = [fn EXCEPT !.called = TRUE,
                      !.result = ReconstructCombinedQkv(fn.tensors, fn.F, fn.dim)]
  /\ UNCHANGED <<inp, rk, pc, sent, fwd, red, al>>

\* ------------------------------------------------------ allocate, deallocate
\* a recorded rank attribute that is absent is -1 here
NoAttr == -1

HasAttr(x) == x # NoAttr

AlIdle == [tp_rank |-> NoAttr, pp_rank |-> NoAttr, dp_rank |-> NoAttr,
           args |-> <<>>, device |-> "cpu"]

\* allocate, up to the call of rank2device: its three arguments
RankArgs(parameter) ==
  LET tp1 == IF HasAttr(parameter.tp_rank) THEN parameter.tp_rank ELSE 0
      tp2 == IF HasAttr(parameter.pp_rank) THEN parameter.pp_rank ELSE tp1
      tp_rank == IF HasAttr(parameter.dp_rank) THEN parameter.dp_rank ELSE tp2
      pp_rank == 0
      dp_rank == 0
  IN <<tp_rank, pp_rank, dp_rank>>

\* allocate(mpu, parameter): the data moves to the device rank2device names
Allocate ==
  /\ al.device = "cpu"
  /\ al' = [al EXCEPT !.args = RankArgs(al), !.device = "cuda"]
  /\ UNCHANGED <<inp, rk, pc, sent, fwd, red, fn>>

\* deallocate(parameter)
Deallocate ==
  /\ al.device = "cuda"
  /\ al' = [al EXCEPT !.device = "cpu"]
  /\ UNCHANGED <<inp, rk, pc, sent, fwd, red, fn>>

\* ----------------------------------------------------------- specifications
BaseInp ==
  [ W |-> 2, kind |-> "column", reversed |-> FALSE, fusion |-> 1,
    wRows |-> 4, wCols |-> MaxOther, hasBias |-> TRUE,
    V |-> 4, hasAttr |-> TRUE, h |-> 4, hasAccessor |-> TRUE,
    cuda |-> {}, batch |-> <<0, 3>>, runForward |-> TRUE ]

\* column- and row-parallel modules of every shape, on an otherwise fixed model
AllSliceInputs ==
  { [BaseInp EXCEPT !.W = W, !.kind = kd, !.reversed = rev, !.fusion = F,
                    !.hasBias = hb,
                    !.wRows = IF (kd = "column") = rev THEN MaxOther ELSE n,
                    !.wCols = IF (kd = "column") = rev THEN n ELSE MaxOther] :
      W \in WorldSizes, kd \in {"column", "row"}, rev \in BOOLEAN,
      F \in 1..MaxFusion, hb \in BOOLEAN, n \in 1..MaxDim }

\* the mapping gives a fusion degree to column-parallel modules only
SliceInputs == { i \in AllSliceInputs : i.kind = "column" \/ i.fusion = 1 }

\* vocabularies and batches of two token ids
EmbInputs ==
  UNION { { [BaseInp EXCEPT !.W = W, !.V = V, !.batch = <<t1, t2>>] :
              W \in WorldSizes, t1 \in 0..(V - 1), t2 \in 0..(V - 1) } :
          V \in 1..MaxVocab }

\* config attributes, models without get_input_embeddings, tensors on cuda
CfgInputs ==
  { [BaseInp EXCEPT !.W = W, !.hasAttr = ha, !.h = h, !.hasAccessor = acc,
                    !.cuda = c] :
      W \in WorldSizes, ha \in BOOLEAN, h \in 1..MaxAttr, acc \in BOOLEAN,
      c \in {{}, {"ln.weight"}, {"ln.buf"}, PNames} }

\* every rank runs the same program: parallelize, then a forward pass or
\* none, then deparallelize
Inputs ==
  { [i EXCEPT !.runForward = f] :
      i \in SliceInputs \cup EmbInputs \cup CfgInputs, f \in BOOLEAN }

InitEngine(i) ==
  /\ inp = i
  /\ rk = [r \in 0..(i.W - 1) |-> InitRank(i)]
  /\ pc = [r \in 0..(i.W - 1) |-> "start"]
  /\ sent = [r \in 0..(i.W - 1) |-> NoSent]
  /\ fwd = [r \in 0..(i.W - 1) |-> NoForward]
  /\ red = NoTensor

Init ==
  /\ \E i \in Inputs : InitEngine(i)
  /\ fn = FnIdle
  /\ al = AlIdle

Next ==
  \/ \E r \in Ranks : Parallelize(r)
  \/ \E r \in Ranks : Forward(r)
  \/ Reduce
  \/ \E r \in Ranks : DeparallelizeEnter(r)
  \/ \E r \in Ranks : DeparallelizeFinish(r)

Spec == Init /\ [][Next]_vars

InitFn ==
  /\ InitEngine(BaseInp)
  /\ al = AlIdle
  /\ \E F \in 2..MaxFusion, W \in 1..MaxFnWorld, b \in 1..MaxBlock,
        o \in 1..MaxOther, shape \in {<<1, 0>>, <<2, 0>>, <<2, 1>>} :
       fn = FnInput(F, W, shape[2],
                    IF shape[1] = 1 THEN Iota1(F * W * b, 0)
                    ELSE IF shape[2] = 0 THEN Iota2(F * W * b, o, 0)
                    ELSE Iota2(o, F * W * b, 0),
                    b)

NextFn == ReconstructCall

SpecFn == InitFn /\ [][NextFn]_vars

\* a parameter on the host with any of tp_rank, pp_rank, dp_rank recorded
InitAlloc ==
  /\ InitEngine(BaseInp)
  /\ fn = FnIdle
  /\ \E t, p, d \in {NoAttr} \cup 0..MaxRank :
       al = [AlIdle EXCEPT !.tp_rank = t, !.pp_rank = p, !.dp_rank = d]

NextAlloc ==
  \/ Allocate
  \/ Deallocate

SpecAlloc == InitAlloc /\ [][NextAlloc]_vars

\* ------------------------------------------------------------------- claims
\* what the claims call the module's fusion degree, slicing dimension and
\* sharded size
FusionOf(i) == IF i.kind = "column" THEN i.fusion ELSE 1
SliceDimOf(i) ==
  IF i.kind = "column" THEN (IF i.reversed THEN 1 ELSE 0)
  ELSE (IF i.reversed THEN 0 ELSE 1)
ShardedSize(i) == Size(OrigWeight(i), SliceDimOf(i))
Divisible(i) == ShardedSize(i) % (FusionOf(i) * i.W) = 0
AfterDeparallelize(r) == pc[r] \in {"done", "dfailed"}

\* C1: with the sharded dimension divisible by F*W (and the vocabulary by W),
\* a rank that ran parallelize and then deparallelize holds the weight, bias
\* and embedding tensors it held before parallelize.
C1_RoundTrip ==
  \A r \in Ranks :
    (AfterDeparallelize(r) /\ Divisible(inp) /\ inp.V % inp.W = 0)
      => /\ rk[r].linW = OrigWeight(inp)
         /\ rk[r].linB = OrigBias(inp)
         /\ rk[r].embW = OrigTable(inp)

\* the concatenation along dim of the blocks r, r+W, ..., r+(F-1)*W of t
ExpectedShard(t, F, W, dim, r) ==
  Cat([j \in 1..F |-> Block(t, dim, Size(t, dim) \div (F * W), r + (j - 1) * W)], dim)

\* C2: after _slice, rank r's weight is the concatenation, along the slicing
\* dimension, of the chunks r, r+W, ..., r+(F-1)*W of the F*W equal chunks.
C2_SliceResult ==
  \A r \in Ranks :
    (pc[r] = "sharded" /\ Divisible(inp))
      => rk[r].linW = ExpectedShard(OrigWeight(inp), FusionOf(inp), inp.W,
                                    SliceDimOf(inp), r)

\* C3: _reconstruct_combined_qkv, given the ranks' tensors (rank r: the blocks
\* r, r+W, ... of the original), returns the blocks in the original order.
C3_ReconstructInverts == fn.called => fn.result = fn.orig

\* a call with F > 1 and W > 1 along dim 1 whose result differs from the
\* rank-order concatenation
C3_Witness ==
  /\ fn.called /\ fn.F > 1 /\ fn.W > 1 /\ fn.dim = 1
  /\ fn.result = fn.orig
  /\ fn.result # Cat(fn.tensors, fn.dim)

\* C4: the ranges [start_r, end_r) of _get_partitioned_vocab_range (the list
\* forward obtained: start_r and end_r are consecutive entries) start at 0,
\* never end before they start, hold ceil(V/W) ids except the last, and end
\* at V.  Stated for vocabularies of at least W ids.
C4_VocabPartition ==
  \A r \in Ranks :
    (fwd[r].done /\ inp.W > 1 /\ inp.V >= inp.W)
      => LET ix == fwd[r].indices
         IN /\ ix[1] = 0
            /\ ix[inp.W + 1] = inp.V
            /\ \A q \in 1..inp.W :
                 /\ ix[q] <= ix[q + 1]
                 /\ q < inp.W => ix[q + 1] - ix[q] = CeilDiv(inp.V, inp.W)

\* C5: a rescaled attribute is back at its original value once deparallelize
\* has rescaled it (a non-divisible value would have stopped parallelize).
C5_RescaleRoundTrip ==
  \A r \in Ranks :
    (inp.hasAttr /\ pc[r] \in {"entered", "done", "dfailed", "hung"})
      => rk[r].attr = inp.h

\* C6: parallelize on a model without get_input_embeddings fails and leaves
\* the model as it was.
C6_NoPartialMutation ==
  \A r \in Ranks :
    (~inp.hasAccessor /\ pc[r] = "pfailed") => rk[r] = InitRank(inp)

\* C7: a sharded dimension not divisible by F*W makes parallelize fail on
\* every rank: no rank gets past it.
C7_DivisibilityFatal ==
  \A r \in Ranks : ~Divisible(inp) => pc[r] \in {"start", "pfailed"}

\* C8: after parallelize on rank r every parameter and buffer carries
\* tp_rank = r.
C8_ShardDescriptor ==
  \A r \in Ranks :
    pc[r] = "sharded"
      => \A p \in Parameters(rk[r]) \cup Buffers(rk[r]) : rk[r].tp[p] = r

InRange(r, t) == fwd[r].indices[r + 1] <= t /\ t < fwd[r].indices[r + 2]

\* the sum over the ranks of element j of row k of their local outputs
SumOverRanks(k, j) == SumSeq([q \in 1..inp.W |-> fwd[q - 1].out.v[k][j]])

AllForwarded == \A r \in Ranks : fwd[r].done

\* C9: for W > 1 the rank whose range holds token t contributes row t of the
\* original table, looked up at t - start, every other rank a zero row; once
\* every rank has its local output, one rank holds t and the sum over the
\* ranks is the unsharded lookup.
C9_MaskedEmbedding ==
  inp.W > 1 =>
    \A k \in 1..Len(inp.batch) :
      /\ \A r \in Ranks :
           fwd[r].done =>
             IF InRange(r, inp.batch[k])
             THEN /\ fwd[r].masked[k] = inp.batch[k] - fwd[r].indices[r + 1]
                  /\ fwd[r].out.v[k] = OrigTable(inp).v[inp.batch[k] + 1]
             ELSE fwd[r].out.v[k] = [j \in 1..EmbDim |-> 0]
      /\ AllForwarded
           => /\ Cardinality({r \in Ranks : InRange(r, inp.batch[k])}) = 1
              /\ \A j \in 1..EmbDim :
                   SumOverRanks(k, j) = OrigTable(inp).v[inp.batch[k] + 1][j]

\* W = 4 on a vocabulary not divisible by 4, two ids held by different ranks,
\* every rank's local output present
C9_Witness ==
  /\ inp.W = 4 /\ inp.V % 4 # 0
  /\ inp.batch[1] # inp.batch[2]
  /\ AllForwarded
  /\ \E r \in Ranks : InRange(r, inp.batch[1]) /\ ~InRange(r, inp.batch[2])
  /\ \A j \in 1..EmbDim :
       SumOverRanks(1, j) = OrigTable(inp).v[inp.batch[1] + 1][j]

\* C10: after _parallelize_embedding every rank r holds a shard, made of the
\* rows [start_r, end_r) of the table, the range forward computes for it.
\* Stated for vocabularies of at least W ids.
C10_EmbeddingShard ==
  \A r \in Ranks :
    (inp.hasAccessor /\ inp.V >= inp.W /\ pc[r] \in {"sharded", "pfailed"})
      => LET lo == VocabIndices(inp.V, inp.W)[r + 1]
             hi == VocabIndices(inp.V, inp.W)[r + 2]
             w == rk[r].embW
         IN /\ rk[r].embCls = "VocabParallelEmbedding"
            /\ Size(w, 0) = hi - lo
            /\ \A k \in 1..Size(w, 0) :
                 lo + k <= inp.V /\ w.v[k] = OrigTable(inp).v[lo + k]

\* the input and output features of a weight laid out [in, out] when the
\* module is reversed, [out, in] when it is not
LocalIn(w, reversed) == IF reversed THEN Size(w, 0) ELSE Size(w, 1)
LocalOut(w, reversed) == IF reversed THEN Size(w, 1) ELSE Size(w, 0)

\* C11: after parallelize the module's in_features and out_features are the
\* input and output features of its local weight, reversed or not; after
\* deparallelize (sharded dimension divisible by F*W) they are back at their
\* values before parallelize.
C11_FeatureCounts ==
  \A r \in Ranks :
    /\ pc[r] = "sharded"
         => /\ rk[r].inF = LocalIn(rk[r].linW, inp.reversed)
            /\ rk[r].outF = LocalOut(rk[r].linW, inp.reversed)
    /\ (pc[r] = "done" /\ Divisible(inp))
         => /\ rk[r].inF = InFeatures(inp)
            /\ rk[r].outF = OutFeatures(inp)

IsPrefix(a, b) == Len(a) <= Len(b) /\ SubSeq(b, 1, Len(a)) = a

\* rank r has left the program: a handler raised, or deparallelize returned
Stopped(r) == pc[r] \in {"pfailed", "ffailed", "dfailed", "done"}

\* C12: the ranks issue the same collective calls in the same order (at any
\* time one rank's sequence is a prefix of the other's), and no rank stops
\* short of a collective another rank has issued.
C12_CallOrder ==
  \A r, q \in Ranks :
    /\ IsPrefix(rk[r].calls, rk[q].calls) \/ IsPrefix(rk[q].calls, rk[r].calls)
    /\ Stopped(r) => Len(rk[q].calls) <= Len(rk[r].calls)

\* a recorded rank attribute, 0 when it is absent
Recorded(x) == IF HasAttr(x) THEN x ELSE 0

\* C13: allocate asks rank2device for the device of (tp_rank, pp_rank,
\* dp_rank), each the parameter's recorded attribute of that name, or 0 when
\* that attribute is absent.
C13_DevicePlacement ==
  al.args # <<>>
    => al.args = <<Recorded(al.tp_rank), Recorded(al.pp_rank), Recorded(al.dp_rank)>>

====
